---- MODULE Spec2Model ----
(***************************************************************************)
(* Model of crazygaze/rpc/RPCConnection.h: the Call builder (Call<F,C>)    *)
(* and the Connection<LOCAL,REMOTE> that queues, sends and receives RPC    *)
(* frames over a Transport.                                                *)
(*                                                                         *)
(* Producer threads build and finalize calls (call / async / ft / ~Call);  *)
(* one driving thread runs process().  commit() touches the outbound       *)
(* queue under the Monitor lock, so it is one atomic step; process() is    *)
(* split at the points where other threads can interleave: the swap under  *)
(* the lock, each queued send action, each receive.                        *)
(*                                                                         *)
(* OutProcessor (the reply correlator), InProcessor (local dispatch),      *)
(* Header, Stream and Transport are not part of RPCConnection.h; they are  *)
(* modelled from their contracts in the specification.                     *)
(***************************************************************************)
EXTENDS Integers, Sequences, FiniteSets, Bags, TLC

\* ------------------------------------------------------------------ bounds
MaxCalls == 2        \* calls built with call()/callGeneric()
MaxMoves == 1        \* explicit moves of a builder by the caller
MaxPeerFrames == 2   \* frames the peer sends us (replies and calls)
MaxDepth == 2        \* process() invocations on the driving thread's stack
CounterBits == 2     \* width of the header's counter field (narrowed, so that
                     \* the counter can be seen to wrap)

\* Table<Remote>::RPCId::genericRPC (its value is set outside this file; all
\* that matters is that typed methods have other ids)
GenericRpcId == 0
TypedRpcId == GenericRpcId + 1

BodySizes == {0, 4}       \* bytes call() serializes (0: a method without parameters)
GenericBodySizes == {6}   \* bytes callGeneric() serializes (the name, the arguments)
StmtBodySizes == {4}      \* bytes serialized by the calls made in one statement
Directions == {{"In"}, {"Out"}, {"In", "Out"}}

\* sizeof(Header), the bytes "m_data << hdr" reserves (its value is set outside
\* this file; all that matters is that it is not zero)
HeaderSize == 8

VARIABLES
    builders,           \* bag of the live Call objects
    nCalls,             \* calls started by call()/callGeneric()
    nMoves,             \* explicit moves done
    m_outWork,          \* Monitor<WorkQueue>: queued send actions
    m_tmpOutWork,       \* WorkQueue private to processOut
    replyIdCounter,     \* m_remotePrc.replyIdCounter
    replies,            \* m_remotePrc's correlator: entries [key, call, handler]
    m_outSignal,        \* TRUE when an out-signal is installed
    m_disconnectSignal, \* TRUE when a disconnect signal is installed
    open,               \* transport: not closed
    inbox,              \* transport: frames receive() will return
    sent,               \* transport: frames handed to send(), in order
    peerFrames,         \* frames the peer has sent
    pc,                 \* driving thread's position in process()
    what,               \* Direction of the running process()
    callstack,          \* the driving thread's process() invocations, innermost
                        \* last: each one's Callstack<ThisType> marker (its key is
                        \* the connection) and its argument
    \* ---- history (what happened; not read by the program)
    finalized,          \* <<call, handler>> in the order commit() queued them
    preOut,             \* -1, or Len(finalized) when the first process(Out) began
    nOk,                \* call -> number of times its handler got a reply
    nFail,              \* call -> number of times its handler got a failure
    fired,              \* invocations of the disconnect signal installed last
    outSignals          \* out-signal invocations

prog == <<builders, nCalls, nMoves, m_outWork, m_tmpOutWork, replyIdCounter,
          replies, m_outSignal, m_disconnectSignal, open, inbox, sent,
          peerFrames, pc, what, callstack>>
hist == <<finalized, preOut, nOk, nFail, fired, outSignals>>
vars == <<prog, hist>>

CallIds == 1..MaxCalls

Init ==
    /\ builders = EmptyBag
    /\ nCalls = 0
    /\ nMoves = 0
    /\ m_outWork = <<>>
    /\ m_tmpOutWork = <<>>
    /\ replyIdCounter = 0
    /\ replies = {}
    /\ m_outSignal = FALSE
    /\ m_disconnectSignal = FALSE
    /\ open = TRUE
    /\ inbox = <<>>
    /\ sent = <<>>
    /\ peerFrames = 0
    /\ pc = "idle"
    /\ what = {}
    /\ callstack = <<>>
    /\ finalized = <<>>
    /\ preOut = -1
    /\ nOk = [c \in CallIds |-> 0]
    /\ nFail = [c \in CallIds |-> 0]
    /\ fired = 0
    /\ outSignals = 0

Running == pc # "crashed"

\* ------------------------------------------------------------ Call builder

One(b) == SetToBag({b})
Live == BagToSet(builders)

\* Call(C& con, uint32_t rpcid): the buffer starts with the reserved header
CallCtor(c, rpcid) ==
    [call |-> c, rpcid |-> rpcid, size |-> HeaderSize, commited |-> FALSE,
     queued |-> 0]

\* serializeParams: appends n body bytes behind the header
serializeParams(b, n) == [b EXCEPT !.size = @ + n]

\* Stream's move: the moved-from buffer is left empty (writeSize() = 0)
MovedFromStream(size) == 0

\* Call(Call&& other): the new object takes other's buffer and copies its flag
MoveCtor(other) == [other EXCEPT !.queued = 0]

\* ... and what the move leaves behind in `other`
MovedFrom(other) == [other EXCEPT !.size = MovedFromStream(@)]

\* mutant: the destructor tests only the flag, not the buffer
DtorCommits_FlagOnly(b) == ~b.commited

\* mutant: the destructor wants body bytes behind the header
DtorCommits_BodyOnly(b) == b.size > HeaderSize /\ ~b.commited

\* ~Call: "if (m_data.writeSize() && !m_commited)"
DtorCommits(b) == b.size # 0 /\ ~b.commited

\* the closure commit() queues: the buffer and the handler
Work(b, h) == [call |-> b.call, rpcid |-> b.rpcid, size |-> b.size, handler |-> h]

\* mutant: every closure is put into the queue twice
Queued_Twice(q, ws) == q \o ws \o ws

\* mutant: a new closure is put in front of the queue
Queued_Front(q, ws) == ws \o q

\* q.emplace(...) for each closure of ws, in order
Queued(q, ws) == q \o ws

\* Connection::commit, once for each closure of ws: queue it under the lock,
\* then invoke the out-signal if one is installed
commit(ws) ==
    /\ m_outWork' = Queued(m_outWork, ws)
    /\ finalized' = finalized \o [i \in 1..Len(ws) |-> <<ws[i].call, ws[i].handler>>]
    /\ outSignals' = IF m_outSignal THEN outSignals + Len(ws) ELSE outSignals

\* what Call::async leaves of builder b: commit(std::move(m_data), handler);
\* m_commited = true
Asynced(b) ==
    [b EXCEPT !.size = MovedFromStream(@), !.commited = TRUE, !.queued = @ + 1]

\* ~Call on b: the closures it commits (the implicit async with the no-op handler)
Dtor(b) == IF DtorCommits(b) THEN <<Work(b, "noop")>> ELSE <<>>

\* the builder call()/callGeneric() fills before it returns it
Built(rpcid, n) == serializeParams(CallCtor(nCalls + 1, rpcid), n)

\* everything a builder operation leaves alone
BuilderFrame ==
    UNCHANGED <<m_tmpOutWork, replyIdCounter, replies, m_outSignal,
                m_disconnectSignal, open, inbox, sent, peerFrames, pc, what,
                callstack, preOut, nOk, nFail, fired>>

\* auto c = con.call/callGeneric(...): build, serialize, return std::move(c);
\* the local of call() is destroyed on return
NewCall(rpcid, n) ==
    /\ Running
    /\ nCalls < MaxCalls
    /\ builders' = builders (+) One(MoveCtor(Built(rpcid, n)))
    /\ commit(Dtor(MovedFrom(Built(rpcid, n))))
    /\ nCalls' = nCalls + 1
    /\ UNCHANGED nMoves
    /\ BuilderFrame

\* Connection::call<F>(rpcid, args...), the builder kept in a variable
Call(n) == NewCall(TypedRpcId, n)

\* Connection::callGeneric(name, args), the builder kept in a variable
CallGeneric == \E n \in GenericBodySizes : NewCall(GenericRpcId, n)

\* the caller moves builder b into a new Call object
MoveCall(b) ==
    /\ Running
    /\ nMoves < MaxMoves
    /\ builders' = ((builders (-) One(b)) (+) One(MovedFrom(b))) (+) One(MoveCtor(b))
    /\ nMoves' = nMoves + 1
    /\ commit(<<>>)
    /\ UNCHANGED nCalls
    /\ BuilderFrame

\* a builder that still owns its buffer and was not finalized
Fresh(b) == ~b.commited /\ b.size # 0

\* b.async(handler) on a fresh builder
Async(b) ==
    /\ Running
    /\ Fresh(b)
    /\ commit(<<Work(b, "user")>>)
    /\ builders' = (builders (-) One(b)) (+) One(Asynced(b))
    /\ UNCHANGED <<nCalls, nMoves>>
    /\ BuilderFrame

\* b.ft(): async with a handler that sets the promise
Ft(b) ==
    /\ Running
    /\ Fresh(b)
    /\ commit(<<Work(b, "user")>>)
    /\ builders' = (builders (-) One(b)) (+) One(Asynced(b))
    /\ UNCHANGED <<nCalls, nMoves>>
    /\ BuilderFrame

\* b.async(handler) or b.ft() on a builder that is already committed
AsyncAgain(b) ==
    /\ Running
    /\ b.commited
    /\ b.queued < 2
    /\ commit(<<Work(b, "user")>>)
    /\ builders' = (builders (-) One(b)) (+) One(Asynced(b))
    /\ UNCHANGED <<nCalls, nMoves>>
    /\ BuilderFrame

\* ~Call on builder b
Destroy(b) ==
    /\ Running
    /\ builders' = builders (-) One(b)
    /\ commit(Dtor(b))
    /\ UNCHANGED <<nCalls, nMoves>>
    /\ BuilderFrame

\* One statement on a temporary, con.call<F>(rpcid, args...).async(handler),
\* .ft() or nothing (h = "noop"): call() and its local, the finalizer, and the
\* temporary's destructor at the end of the statement; StmtWork is what the
\* statement commits
StmtWork(rpcid, n, h) ==
    LET local == MovedFrom(Built(rpcid, n))
        tmp == MoveCtor(Built(rpcid, n))
    IN  Dtor(local)
        \o (IF h = "noop" THEN Dtor(tmp) ELSE <<Work(tmp, h)>> \o Dtor(Asynced(tmp)))

Stmt(rpcid, n, h) ==
    /\ Running
    /\ commit(StmtWork(rpcid, n, h))
    /\ nCalls' = nCalls + 1
    /\ UNCHANGED <<builders, nMoves>>
    /\ BuilderFrame

\* such a statement, one of the MaxCalls calls of a run
CallStmt(rpcid, n, h) == nCalls < MaxCalls /\ Stmt(rpcid, n, h)

\* con.call<F>(rpcid, args...).async(handler);
CallAsync(n) == CallStmt(TypedRpcId, n, "user")

\* auto f = con.call<F>(rpcid, args...).ft();
CallFt(n) == CallStmt(TypedRpcId, n, "user")

\* con.call<F>(rpcid, args...);   the result is not wanted
CallDiscard(n) == CallStmt(TypedRpcId, n, "noop")

\* con.callGeneric(name, args).async(handler);
CallGenericAsync == \E n \in GenericBodySizes : CallStmt(GenericRpcId, n, "user")

\* ------------------------------------------------- header, correlator, transport

\* Header::key(): the correlation key of (rpcid, counter)
key(hdr) == <<hdr.rpcid, hdr.counter>>

Keys == {e.key : e \in replies}

\* OutProcessor::addReplyHandler: the correlator after registering w under k
addReplyHandler(k, w) ==
    {e \in replies : e.key # k} \cup {[key |-> k, call |-> w.call, handler |-> w.handler]}

\* handlers invoked with a decoded reply / with a failure result
InvokeOk(cs) == nOk' = [c \in CallIds |-> IF c \in cs THEN nOk[c] + 1 ELSE nOk[c]]
InvokeFail(cs) == nFail' = [c \in CallIds |-> IF c \in cs THEN nFail[c] + 1 ELSE nFail[c]]

\* OutProcessor::processReply: take the entry under the frame's key out of the
\* correlator and give it the reply; no entry: the frame is dropped
processReply(hdr) ==
    LET hit == {e \in replies : e.key = key(hdr)}
    IN  /\ replies' = replies \ hit
        /\ InvokeOk({e.call : e \in hit})
        /\ UNCHANGED nFail

\* OutProcessor::abortReplies: every registered handler gets a failure, then
\* the correlator is cleared
abortReplies ==
    /\ InvokeFail({e.call : e \in replies})
    /\ replies' = {}
    /\ UNCHANGED nOk

\* InProcessor::processCall: run the local method and write its reply frame
\* to the transport
processCall(hdr) ==
    sent' = Append(sent, [hdr EXCEPT !.isReply = TRUE])

\* Transport::receive: "closed" (false), "empty" (true, no bytes) or "frame"
receive == IF ~open THEN "closed" ELSE IF inbox = <<>> THEN "empty" ELSE "frame"

\* "hdr->bits.counter = n": the bit-field keeps the low CounterBits bits
Truncated(n) == n % (2 ^ CounterBits)

\* the header send() patches into the buffer of w
Patched(w, counter) ==
    [isReply |-> FALSE, rpcid |-> w.rpcid, counter |-> Truncated(counter),
     size |-> w.size, call |-> w.call]

\* mutant: the handler is registered under the counter before the increment
send_OldKey(w) ==
    /\ replyIdCounter' = replyIdCounter + 1
    /\ replies' = addReplyHandler(key(Patched(w, replyIdCounter)), w)
    /\ sent' = Append(sent, Patched(w, replyIdCounter + 1))

\* mutant: the counter is read but not advanced
send_NoIncrement(w) ==
    /\ replyIdCounter' = replyIdCounter
    /\ replies' = addReplyHandler(key(Patched(w, replyIdCounter)), w)
    /\ sent' = Append(sent, Patched(w, replyIdCounter))

\* mutant: the frame goes out but no handler is registered
send_NoHandler(w) ==
    /\ replyIdCounter' = replyIdCounter + 1
    /\ replies' = replies
    /\ sent' = Append(sent, Patched(w, replyIdCounter + 1))

\* Connection::send: patch size and counter into the header, register the
\* handler under the header's key, hand the buffer to the transport
send(w) ==
    /\ replyIdCounter' = replyIdCounter + 1
    /\ replies' = addReplyHandler(key(Patched(w, replyIdCounter + 1)), w)
    /\ sent' = Append(sent, Patched(w, replyIdCounter + 1))

\* --------------------------------------------------------------- process()

BuildersSame == UNCHANGED <<builders, nCalls, nMoves>>
SignalsSame == UNCHANGED <<m_outSignal, m_disconnectSignal, fired, outSignals>>
HandlersSame == UNCHANGED <<replies, nOk, nFail>>
TransportSame == UNCHANGED <<open, inbox, sent, peerFrames>>
QueuesSame == UNCHANGED <<m_outWork, m_tmpOutWork, replyIdCounter, finalized>>

\* Callstack<ThisType>::Context ctx(this) is pushed when process() begins and
\* popped when it returns.
Frame(w) == [key |-> "this", what |-> w]

\* the argument of the invocation that goes on when the innermost of stack
\* returns ({}: none does)
Resumed(stack) == IF Len(stack) > 1 THEN stack[Len(stack) - 1].what ELSE {}

\* Connection::getCurrent(): the key of the innermost marker, or nullptr
getCurrent == IF callstack = <<>> THEN "nullptr" ELSE callstack[Len(callstack)].key

\* mutant: the marker stays on the stack when process() returns
Goto_NoPop(next, stack) ==
    /\ pc' = IF next = "idle" /\ Len(stack) > 1 THEN "recv" ELSE next
    /\ callstack' = stack

\* process() leaves a phase: on to the next one, or return: the marker is
\* popped, and an invocation that was running a handler goes on receiving
Goto(next, stack) ==
    /\ pc' = IF next = "idle" /\ Len(stack) > 1 THEN "recv" ELSE next
    /\ callstack' = IF next = "idle" THEN SubSeq(stack, 1, Len(stack) - 1) ELSE stack

\* where process(w) goes when processOut has returned
AfterOut(w) == IF "In" \in w THEN "recv" ELSE "idle"

\* mutant: the queue is copied into the private list and not emptied
SwappedQueue_Copy == m_outWork

\* std::swap(m_tmpOutWork, q): what the shared queue holds afterwards
SwappedQueue == m_tmpOutWork

\* std::swap(m_tmpOutWork, q): what the private list holds afterwards
SwappedTmp == m_outWork

\* process(what) with Out: the callstack marker, then processOut's swap under
\* the queue's lock; an empty list ends processOut at once
ProcessOut(w) ==
    /\ pc = "idle"
    /\ "Out" \in w
    /\ m_tmpOutWork' = SwappedTmp
    /\ m_outWork' = SwappedQueue
    /\ preOut' = IF preOut = -1 THEN Len(finalized) ELSE preOut
    /\ IF SwappedTmp # <<>>
          THEN /\ Goto("drain", Append(callstack, Frame(w)))
               /\ what' = w
          ELSE /\ Goto(AfterOut(w), Append(callstack, Frame(w)))
               /\ what' = IF AfterOut(w) = "idle" THEN Resumed(Append(callstack, Frame(w))) ELSE w
    /\ BuildersSame /\ SignalsSame /\ HandlersSame /\ TransportSame
    /\ UNCHANGED <<replyIdCounter, finalized>>

\* process(In): the callstack marker, then processIn
ProcessIn ==
    /\ pc = "idle"
    /\ Goto("recv", Append(callstack, Frame({"In"})))
    /\ what' = {"In"}
    /\ BuildersSame /\ SignalsSame /\ HandlersSame /\ TransportSame /\ QueuesSame
    /\ UNCHANGED preOut

\* m_tmpOutWork.front()
NextWork == Head(m_tmpOutWork)

\* m_tmpOutWork.pop()
Popped == Tail(m_tmpOutWork)

\* mutant: the counter is advanced, the handler is not registered yet
sendRegister_CounterOnly(w) ==
    /\ replyIdCounter' = replyIdCounter + 1
    /\ replies' = replies
    /\ sent' = sent

\* Connection::send up to addReplyHandler: the header is patched and the
\* handler registered under its key; the transport has not been given the frame
sendRegister(w) ==
    /\ replyIdCounter' = replyIdCounter + 1
    /\ replies' = addReplyHandler(key(Patched(w, replyIdCounter + 1)), w)
    /\ sent' = sent

\* Connection::send's last statement: m_transport->send(data.extract())
sendTransmit(w) ==
    /\ sent' = Append(sent, Patched(w, replyIdCounter))
    /\ UNCHANGED <<replyIdCounter, replies>>

\* the loop goes on while the list holds closures; then processOut returns
LoopOn ==
    /\ m_tmpOutWork' = Popped
    /\ IF Popped # <<>>
          THEN UNCHANGED <<pc, what, callstack>>
          ELSE /\ Goto(AfterOut(what), callstack)
               /\ what' = IF AfterOut(what) = "idle" THEN Resumed(callstack) ELSE what

\* processOut's loop body: m_tmpOutWork.front()(); m_tmpOutWork.pop()
ProcessOutRun ==
    /\ pc = "drain"
    /\ m_tmpOutWork # <<>>
    /\ NextWork.size >= HeaderSize
    /\ send(NextWork)
    /\ LoopOn
    /\ BuildersSame /\ SignalsSame
    /\ UNCHANGED <<m_outWork, finalized, nOk, nFail, open, inbox, peerFrames, preOut>>

\* processOut's loop body, seen from the other threads in two steps: first
\* send() as far as addReplyHandler ...
ProcessOutRegister ==
    /\ pc = "drain"
    /\ m_tmpOutWork # <<>>
    /\ NextWork.size >= HeaderSize
    /\ sendRegister(NextWork)
    /\ pc' = "xmit"
    /\ UNCHANGED <<m_tmpOutWork, what, callstack>>
    /\ BuildersSame /\ SignalsSame
    /\ UNCHANGED <<m_outWork, finalized, nOk, nFail, open, inbox, peerFrames, preOut>>

\* ... then the transport's send, the pop, and the loop condition
ProcessOutTransmit ==
    /\ pc = "xmit"
    /\ sendTransmit(NextWork)
    /\ m_tmpOutWork' = Popped
    /\ IF Popped # <<>>
          THEN /\ pc' = "drain"
               /\ UNCHANGED <<what, callstack>>
          ELSE /\ Goto(AfterOut(what), callstack)
               /\ what' = IF AfterOut(what) = "idle" THEN Resumed(callstack) ELSE what
    /\ BuildersSame /\ SignalsSame
    /\ UNCHANGED <<m_outWork, finalized, nOk, nFail, open, inbox, peerFrames, preOut>>

\* processOut's loop body on a closure whose buffer had been moved out before
\* (a second async): send() patches a Header through data.ptr(0) of an empty
\* Stream, which is undefined: the program dies, or it goes on with whatever
\* rpcid it reads back and hands the empty buffer to the transport
ProcessOutRunEmpty ==
    /\ pc = "drain"
    /\ m_tmpOutWork # <<>>
    /\ NextWork.size < HeaderSize
    /\ \/ /\ pc' = "crashed"
          /\ UNCHANGED <<m_tmpOutWork, replyIdCounter, replies, sent, what,
                         callstack>>
       \/ /\ \E r \in {TypedRpcId, GenericRpcId} : send([NextWork EXCEPT !.rpcid = r])
          /\ LoopOn
    /\ BuildersSame /\ SignalsSame
    /\ UNCHANGED <<m_outWork, finalized, nOk, nFail, open, inbox, peerFrames, preOut>>

InSame ==
    /\ BuildersSame /\ QueuesSame
    /\ UNCHANGED <<m_outSignal, outSignals, open, peerFrames, preOut>>

\* mutant: a closed transport ends the loop without aborting the replies
ProcessInClosed_NoAbort ==
    /\ pc = "recv"
    /\ receive = "closed"
    /\ pc' = "disc"
    /\ UNCHANGED <<replies, nOk, nFail>>
    /\ UNCHANGED <<inbox, sent, what, callstack, m_disconnectSignal, fired>>
    /\ InSame

\* mutant: the handlers get their failure but stay in the correlator
ProcessInClosed_KeepsEntries ==
    /\ pc = "recv"
    /\ receive = "closed"
    /\ InvokeFail({e.call : e \in replies})
    /\ pc' = "disc"
    /\ UNCHANGED <<replies, nOk>>
    /\ UNCHANGED <<inbox, sent, what, callstack, m_disconnectSignal, fired>>
    /\ InSame

\* processIn: receive returned false: abortReplies(); return false
ProcessInClosed ==
    /\ pc = "recv"
    /\ receive = "closed"
    /\ abortReplies
    /\ pc' = "disc"
    /\ UNCHANGED <<inbox, sent, what, callstack, m_disconnectSignal, fired>>
    /\ InSame

\* mutant: an empty buffer is taken for a closed transport
ProcessInEmpty_AsClosed ==
    /\ pc = "recv"
    /\ receive = "empty"
    /\ abortReplies
    /\ pc' = "disc"
    /\ UNCHANGED <<inbox, sent, what, callstack, m_disconnectSignal, fired>>
    /\ InSame

\* mutant: with nothing left to read, process(Both) goes back to the outbound
\* queue before it returns
ProcessInEmpty_Redrains ==
    /\ pc = "recv"
    /\ receive = "empty"
    /\ IF "Out" \in what /\ m_outWork # <<>>
          THEN /\ m_tmpOutWork' = m_outWork
               /\ m_outWork' = <<>>
               /\ pc' = "drain"
               /\ UNCHANGED <<what, callstack>>
          ELSE /\ Goto("idle", callstack)
               /\ what' = Resumed(callstack)
               /\ UNCHANGED <<m_outWork, m_tmpOutWork>>
    /\ UNCHANGED <<replies, nOk, nFail, inbox, sent, m_disconnectSignal, fired>>
    /\ BuildersSame
    /\ UNCHANGED <<replyIdCounter, finalized, m_outSignal, outSignals, open,
                   peerFrames, preOut>>

\* processIn: receive returned true with no data: return true; process returns
ProcessInEmpty ==
    /\ pc = "recv"
    /\ receive = "empty"
    /\ Goto("idle", callstack)
    /\ what' = Resumed(callstack)
    /\ UNCHANGED <<replies, nOk, nFail, inbox, sent, m_disconnectSignal, fired>>
    /\ InSame

\* processIn: a frame with isReply set goes to the correlator
ProcessInReply ==
    /\ pc = "recv"
    /\ receive = "frame"
    /\ Head(inbox).isReply
    /\ processReply(Head(inbox))
    /\ inbox' = Tail(inbox)
    /\ UNCHANGED <<pc, sent, what, callstack, m_disconnectSignal, fired>>
    /\ InSame

\* mutant: processIn returns after the frame it has dispatched
ProcessInCall_Returns ==
    /\ pc = "recv"
    /\ receive = "frame"
    /\ ~Head(inbox).isReply
    /\ processCall(Head(inbox))
    /\ inbox' = Tail(inbox)
    /\ Goto("idle", callstack)
    /\ what' = Resumed(callstack)
    /\ UNCHANGED <<replies, nOk, nFail, m_disconnectSignal, fired>>
    /\ InSame

\* processIn: any other frame goes to the local-dispatch delegate
ProcessInCall ==
    /\ pc = "recv"
    /\ receive = "frame"
    /\ ~Head(inbox).isReply
    /\ processCall(Head(inbox))
    /\ inbox' = Tail(inbox)
    /\ UNCHANGED <<pc, replies, nOk, nFail, what, callstack,
                   m_disconnectSignal, fired>>
    /\ InSame

\* the handler that a reply frame f will be given is one of the application
UserHandler(f) == \E e \in replies : e.key = key(f) /\ e.handler = "user"

\* processIn gives a reply to a handler that calls process(w) on this same
\* connection: the reply is processed, then the nested process() places its
\* marker and begins (with processOut's swap, if w has Out)
ProcessInReplyNested(w) ==
    /\ pc = "recv"
    /\ receive = "frame"
    /\ Head(inbox).isReply
    /\ UserHandler(Head(inbox))
    /\ Len(callstack) < MaxDepth
    /\ processReply(Head(inbox))
    /\ inbox' = Tail(inbox)
    /\ LET stack == Append(callstack, Frame(w))
       IN  IF "Out" \in w
              THEN /\ m_tmpOutWork' = SwappedTmp
                   /\ m_outWork' = SwappedQueue
                   /\ preOut' = IF preOut = -1 THEN Len(finalized) ELSE preOut
                   /\ IF SwappedTmp # <<>>
                         THEN /\ Goto("drain", stack)
                              /\ what' = w
                         ELSE /\ Goto(AfterOut(w), stack)
                              /\ what' = IF AfterOut(w) = "idle" THEN Resumed(stack) ELSE w
              ELSE /\ Goto("recv", stack)
                   /\ what' = w
                   /\ UNCHANGED <<m_outWork, m_tmpOutWork, preOut>>
    /\ BuildersSame /\ SignalsSame
    /\ UNCHANGED <<replyIdCounter, finalized, open, sent, peerFrames>>

\* what a handler or a local method leaves alone when it finalizes a call
HandlerCallSame ==
    UNCHANGED <<builders, nMoves, m_tmpOutWork, replyIdCounter, m_outSignal,
                m_disconnectSignal, fired, open, peerFrames, pc, what, callstack,
                preOut>>

\* processIn gives a reply to a handler that makes a call of its own,
\* con.callGeneric(name, args).async(handler)
ProcessInReplyCalls ==
    /\ pc = "recv"
    /\ receive = "frame"
    /\ Head(inbox).isReply
    /\ UserHandler(Head(inbox))
    /\ nCalls < MaxCalls
    /\ processReply(Head(inbox))
    /\ inbox' = Tail(inbox)
    /\ \E n \in GenericBodySizes : commit(StmtWork(GenericRpcId, n, "user"))
    /\ nCalls' = nCalls + 1
    /\ UNCHANGED sent
    /\ HandlerCallSame

\* processIn dispatches a call of the peer to a local method that makes a call
\* of its own, con.callGeneric(name, args).async(handler)
ProcessInCallCalls ==
    /\ pc = "recv"
    /\ receive = "frame"
    /\ ~Head(inbox).isReply
    /\ nCalls < MaxCalls
    /\ processCall(Head(inbox))
    /\ inbox' = Tail(inbox)
    /\ \E n \in GenericBodySizes : commit(StmtWork(GenericRpcId, n, "user"))
    /\ nCalls' = nCalls + 1
    /\ UNCHANGED <<replies, nOk, nFail>>
    /\ HandlerCallSame

\* mutant: the signal is invoked and left installed
ProcessDisconnect_KeepSignal ==
    /\ pc = "disc"
    /\ fired' = IF m_disconnectSignal THEN fired + 1 ELSE fired
    /\ m_disconnectSignal' = m_disconnectSignal
    /\ Goto("idle", callstack)
    /\ what' = Resumed(callstack)
    /\ BuildersSame /\ HandlersSame /\ TransportSame /\ QueuesSame
    /\ UNCHANGED <<m_outSignal, outSignals, preOut>>

\* process: processIn returned false: invoke the disconnect signal and set it
\* to nullptr; process returns
ProcessDisconnect ==
    /\ pc = "disc"
    /\ fired' = IF m_disconnectSignal THEN fired + 1 ELSE fired
    /\ m_disconnectSignal' = FALSE
    /\ Goto("idle", callstack)
    /\ what' = Resumed(callstack)
    /\ BuildersSame /\ HandlersSame /\ TransportSame /\ QueuesSame
    /\ UNCHANGED <<m_outSignal, outSignals, preOut>>

\* mutant: the out-signal is invoked before the closure is queued
SignalSees_BeforeEnqueue(q, ws) == q

\* commit(): the queue as the out-signal's callback finds it, when q was the
\* queue before and ws is what this commit queues
SignalSees(q, ws) == Queued(q, ws)

\* con.call<F>(rpcid, args...).async(handler) with an out-signal installed whose
\* callback runs process(Out) on the finalizing thread (no other thread is in
\* process()): commit() queues the closure, releases the lock and invokes the
\* signal; the callback's process(Out) places its marker and swaps the queue
CallSignalled(n) ==
    /\ Running
    /\ nCalls < MaxCalls
    /\ pc = "idle"
    /\ m_outSignal
    /\ LET ws == StmtWork(TypedRpcId, n, "user")
           found == SignalSees(m_outWork, ws)
           all == Queued(m_outWork, ws)
       IN  /\ finalized' = finalized \o [i \in 1..Len(ws) |-> <<ws[i].call, ws[i].handler>>]
           /\ outSignals' = outSignals + 1
           /\ m_tmpOutWork' = found
           /\ m_outWork' = m_tmpOutWork \o SubSeq(all, Len(found) + 1, Len(all))
           /\ preOut' = IF preOut = -1 THEN Len(finalized) + Len(ws) ELSE preOut
           /\ IF found # <<>>
                 THEN /\ Goto("drain", Append(callstack, Frame({"Out"})))
                      /\ what' = {"Out"}
                 ELSE /\ Goto("idle", Append(callstack, Frame({"Out"})))
                      /\ what' = {}
    /\ nCalls' = nCalls + 1
    /\ UNCHANGED <<builders, nMoves, m_outSignal>>
    /\ UNCHANGED <<replyIdCounter, m_disconnectSignal, fired>>
    /\ HandlersSame /\ TransportSame

\* ---------------------------------------------------- signals, close, the peer

DriverSame == UNCHANGED <<pc, what, callstack, preOut>>

\* setOutSignal(callback), done when the connection is set up
SetOutSignal ==
    /\ pc = "idle"
    /\ nCalls = 0
    /\ preOut = -1
    /\ ~m_outSignal
    /\ m_outSignal' = TRUE
    /\ BuildersSame /\ HandlersSame /\ TransportSame /\ QueuesSame /\ DriverSame
    /\ UNCHANGED <<m_disconnectSignal, fired, outSignals>>

\* setDisconnectSignal(callback): a new callback, not invoked yet
SetDisconnectSignal ==
    /\ pc = "idle"
    /\ ~m_disconnectSignal
    /\ m_disconnectSignal' = TRUE
    /\ fired' = 0
    /\ BuildersSame /\ HandlersSame /\ TransportSame /\ QueuesSame /\ DriverSame
    /\ UNCHANGED <<m_outSignal, outSignals>>

\* Connection::close, or the peer going away: the transport is closed for good
Close ==
    /\ Running
    /\ open
    /\ open' = FALSE
    /\ BuildersSame /\ SignalsSame /\ HandlersSame /\ QueuesSame /\ DriverSame
    /\ UNCHANGED <<inbox, sent, peerFrames>>

\* the peer answers a call frame it was sent (it may answer one twice)
PeerReply(i) ==
    /\ Running
    /\ open
    /\ peerFrames < MaxPeerFrames
    /\ ~sent[i].isReply
    /\ sent[i].size >= HeaderSize
    /\ peerFrames' = peerFrames + 1
    /\ inbox' = Append(inbox, [sent[i] EXCEPT !.isReply = TRUE, !.call = 0])
    /\ BuildersSame /\ SignalsSame /\ HandlersSame /\ QueuesSame /\ DriverSame
    /\ UNCHANGED <<open, sent>>

\* the peer calls one of our methods
PeerCall ==
    /\ Running
    /\ open
    /\ peerFrames < MaxPeerFrames
    /\ peerFrames' = peerFrames + 1
    /\ inbox' = Append(inbox, [isReply |-> FALSE, rpcid |-> TypedRpcId,
                               counter |-> peerFrames + 1, size |-> HeaderSize,
                               call |-> 0])
    /\ BuildersSame /\ SignalsSame /\ HandlersSame /\ QueuesSame /\ DriverSame
    /\ UNCHANGED <<open, sent>>

\* ----------------------------------------------------------- specifications

\* process() as driven by the application
Driver ==
    \/ \E w \in Directions : ProcessOut(w)
    \/ ProcessIn
    \/ ProcessOutRun
    \/ ProcessInClosed
    \/ ProcessInEmpty
    \/ ProcessInReply
    \/ ProcessInCall
    \/ ProcessDisconnect

\* The connection at work: calls are made by whole statements on temporaries.
Next ==
    \/ \E n \in StmtBodySizes : CallAsync(n)
    \/ \E n \in StmtBodySizes : CallFt(n)
    \/ \E n \in StmtBodySizes : CallDiscard(n)
    \/ CallGenericAsync
    \/ Driver
    \/ SetOutSignal
    \/ SetDisconnectSignal
    \/ Close
    \/ \E i \in DOMAIN sent : PeerReply(i)
    \/ PeerCall

Spec == Init /\ [][Next]_vars

\* The Call builder's life: builders kept in variables, moved, finalized and
\* destroyed one operation at a time by the producer threads, while the driving
\* thread runs process(Out).
NextBuilder ==
    \/ \E n \in BodySizes : Call(n)
    \/ \E b \in Live : MoveCall(b)
    \/ \E b \in Live : Async(b)
    \/ \E b \in Live : Ft(b)
    \/ \E b \in Live : Destroy(b)
    \/ ProcessOut({"Out"})
    \/ ProcessOutRun

SpecBuilder == Init /\ [][NextBuilder]_vars

\* The same, with generic calls too and with callers that finalize a builder a
\* second time.
NextDouble ==
    \/ NextBuilder
    \/ CallGeneric
    \/ \E b \in Live : AsyncAgain(b)
    \/ ProcessOutRunEmpty

SpecDouble == Init /\ [][NextDouble]_vars

\* The connection at work, with send() seen in its two halves by the threads
\* that run beside the driving thread.
NextSend ==
    \/ \E n \in StmtBodySizes : CallAsync(n)
    \/ \E n \in StmtBodySizes : CallDiscard(n)
    \/ \E w \in Directions : ProcessOut(w)
    \/ ProcessIn
    \/ ProcessOutRegister
    \/ ProcessOutTransmit
    \/ ProcessInClosed
    \/ ProcessInEmpty
    \/ ProcessInReply
    \/ ProcessDisconnect
    \/ Close
    \/ \E i \in DOMAIN sent : PeerReply(i)

SpecSend == Init /\ [][NextSend]_vars

\* Calls finalized with an out-signal installed, which wakes the driving thread
\* or runs process(Out) itself.
NextSignal ==
    \/ SetOutSignal
    \/ \E n \in StmtBodySizes : CallAsync(n)
    \/ \E n \in StmtBodySizes : CallDiscard(n)
    \/ \E n \in StmtBodySizes : CallSignalled(n)
    \/ ProcessOut({"Out"})
    \/ ProcessOutRun

SpecSignal == Init /\ [][NextSignal]_vars

\* Reply handlers that call process() on the connection they are run by.
NextNested ==
    \/ \E n \in StmtBodySizes : CallAsync(n)
    \/ \E w \in Directions : ProcessOut(w)
    \/ ProcessIn
    \/ ProcessOutRun
    \/ ProcessInClosed
    \/ ProcessInEmpty
    \/ ProcessInReply
    \/ \E w \in Directions : ProcessInReplyNested(w)
    \/ ProcessDisconnect
    \/ Close
    \/ \E i \in DOMAIN sent : PeerReply(i)

SpecNested == Init /\ [][NextNested]_vars

\* Reply handlers and local methods that make calls of their own (the generic
\* calls), beside the typed calls of the other threads.
NextHandlers ==
    \/ \E n \in StmtBodySizes : CallAsync(n)
    \/ \E w \in Directions : ProcessOut(w)
    \/ ProcessIn
    \/ ProcessOutRun
    \/ ProcessInClosed
    \/ ProcessInEmpty
    \/ ProcessInReply
    \/ ProcessInCall
    \/ ProcessInReplyCalls
    \/ ProcessInCallCalls
    \/ ProcessDisconnect
    \/ Close
    \/ \E i \in DOMAIN sent : PeerReply(i)
    \/ PeerCall

SpecHandlers == Init /\ [][NextHandlers]_vars

\* calls enough for the counter field to come round to a value it had before
WrapCalls == 2 ^ CounterBits + 1

\* con.call<F>(rpcid, args...).async(handler), by a caller that goes on calling
\* the same method
WrapCall == nCalls < WrapCalls /\ \E n \in StmtBodySizes : Stmt(TypedRpcId, n, "user")

\* A connection that makes many calls to one method while replies come in late
\* or not at all.
NextWrap ==
    \/ WrapCall
    \/ ProcessOut({"Out"})
    \/ ProcessOutRun
    \/ ProcessIn
    \/ ProcessInReply
    \/ ProcessInEmpty
    \/ \E i \in DOMAIN sent : PeerReply(i)

SpecWrap == Init /\ [][NextWrap]_vars

\* --------------------------------------------------------- counting helpers

\* closures of call c in a work queue
InQueue(q, c) == Cardinality({i \in DOMAIN q : q[i].call = c})

\* times call c was finalized (commit() queued a closure for it)
FinCount(c) == Cardinality({i \in DOMAIN finalized : finalized[i][1] = c})

\* the call frames of c the transport was given
FramesOf(c) == {k \in DOMAIN sent : ~sent[k].isReply /\ sent[k].call = c}

\* the counter in c's frame
CounterOf(c) == sent[CHOOSE k \in FramesOf(c) : TRUE].counter

\* live builders of call c
LiveOf(c) == {b \in Live : b.call = c}

\* live builders of call c that own its buffer, counted with multiplicity
Holders(c) ==
    LET owning == {b \in LiveOf(c) : b.size # 0}
        Sum[S \in SUBSET owning] ==
            IF S = {} THEN 0
            ELSE LET b == CHOOSE x \in S : TRUE
                 IN  CopiesIn(b, builders) + Sum[S \ {b}]
    IN  Sum[owning]

\* ------------------------------------------------------------------ claims

\* a process(Out) has begun and none is running: the first one has completed
FirstOutDone == preOut # -1 /\ pc # "drain"

\* C1: the calls finalized before the first process(Out) began are all sent by
\* that process(Out), one frame each, and their counters grow strictly in the
\* order the calls were finalized.
C1_FirstFlushInOrder ==
    FirstOutDone =>
        \A i \in 1..preOut :
            /\ Cardinality(FramesOf(finalized[i][1])) = 1
            /\ \A j \in 1..preOut :
                   i < j => CounterOf(finalized[i][1]) < CounterOf(finalized[j][1])

C1_Witness == FirstOutDone /\ preOut >= 2 /\ nMoves >= 1

\* C2: with calls finalized while process(Out) runs, every queued send action
\* is in exactly one place: the shared queue, the private list of the running
\* process(Out), or executed once; and process(Out) leaves nothing behind in
\* its private list.
C2_NoSendLostOrDoubled ==
    /\ \A c \in CallIds :
           /\ FinCount(c) = InQueue(m_outWork, c) + InQueue(m_tmpOutWork, c)
                              + Cardinality(FramesOf(c))
           /\ Cardinality(FramesOf(c)) <= 1
    /\ pc # "drain" => m_tmpOutWork = <<>>

C2_Witness ==
    /\ pc = "drain"
    /\ m_outWork # <<>>
    /\ m_tmpOutWork # <<>>

\* calls whose handler is registered in the correlator
Registered == {e.call : e \in replies}

\* the step in which processIn sees receive return false
SeesClosed == pc = "recv" /\ pc' = "disc"

\* C3: when process(In) sees receive return false, every handler registered at
\* that moment gets one failure result and the correlator is left empty; no
\* handler is ever invoked a second time, whatever process(In) calls follow.
C3_AbortOnClosed ==
    /\ [][SeesClosed =>
            /\ replies' = {}
            /\ nOk' = nOk
            /\ \A c \in CallIds :
                   nFail'[c] = nFail[c] + (IF c \in Registered THEN 1 ELSE 0)]_vars
    /\ [](\A c \in CallIds : nOk[c] + nFail[c] <= 1)

\* a later process(In) on the closed transport, after a handler was aborted
C3_Witness ==
    /\ pc = "disc"
    /\ fired = 1
    /\ \E c \in CallIds : nFail[c] = 1 /\ nOk[c] = 0

\* C4: an installed disconnect signal is invoked by the first process call that
\* sees the closed transport and is dropped with that; it is never invoked a
\* second time by the process calls that see the closed transport later.
C4_DisconnectOnce ==
    /\ [][(pc = "disc" /\ pc' # "disc") =>
            /\ m_disconnectSignal' = FALSE
            /\ fired' = fired + (IF m_disconnectSignal THEN 1 ELSE 0)]_vars
    /\ [](fired <= 1)
    /\ [](m_disconnectSignal => fired = 0)

\* a later process call sees the closed transport; the signal has fired
C4_Witness == pc = "disc" /\ fired = 1 /\ ~m_disconnectSignal /\ ~open

\* C5 as claimed: when process(In) sees the closed transport, every call
\* finalized with async/ft that has no reply yet gets its failure result, be it
\* sent already or still in the outbound queue.
C5_AllFinalizedAborted ==
    [][SeesClosed =>
         \A i \in DOMAIN finalized :
             (finalized[i][2] = "user" /\ nOk[finalized[i][1]] = 0)
                 => nFail'[finalized[i][1]] = 1]_vars

\* the calls whose frame carries the key of frame f
SentWithKey(f) ==
    {sent[k].call : k \in {x \in DOMAIN sent : ~sent[x].isReply /\ key(sent[x]) = key(f)}}

\* the step in which processIn reads a reply frame
ReadsReply ==
    /\ pc = "recv"
    /\ open
    /\ inbox # <<>>
    /\ Head(inbox).isReply
    /\ inbox' = Tail(inbox)

\* C6: the first reply read for the key of a call that was sent invokes that
\* call's handler once with the reply and removes its correlator entry; a
\* reply whose key has no entry any more changes nothing and the read loop
\* goes on; no handler ever gets two replies.
C6_ReplyRoundTrip ==
    /\ [][ReadsReply =>
            /\ pc' = "recv"
            /\ nFail' = nFail
            /\ \A c \in CallIds :
                   IF c \in SentWithKey(Head(inbox)) /\ nOk[c] = 0 /\ nFail[c] = 0
                      THEN /\ nOk'[c] = 1
                           /\ c \in Registered
                           /\ c \notin {e.call : e \in replies'}
                      ELSE /\ nOk'[c] = nOk[c]
                           /\ (c \in Registered <=> c \in {e.call : e \in replies'})]_vars
    /\ [](\A c \in CallIds : nOk[c] <= 1)

\* process(In) is about to read a second reply for a call already answered
C6_Witness ==
    /\ pc = "recv"
    /\ open
    /\ inbox # <<>>
    /\ Head(inbox).isReply
    /\ key(Head(inbox)) \notin Keys
    /\ \E c \in SentWithKey(Head(inbox)) : nOk[c] = 1

\* the steps of a process(In) that finds the transport open with no data
OpenNoData ==
    \/ pc = "idle" /\ pc' = "recv"
    \/ pc = "recv" /\ what = {"In"} /\ open /\ inbox = <<>> /\ pc' # "recv"

\* C7: process(In) on a transport that is open with nothing to read returns at
\* once; correlator, handlers, local dispatch and disconnect signal are untouched.
C7_OpenNoDataNoEffect ==
    [][OpenNoData =>
         /\ pc = "recv" => pc' = "idle"
         /\ UNCHANGED <<replies, nOk, nFail, sent, inbox, m_disconnectSignal, fired,
                        m_outWork, m_tmpOutWork, replyIdCounter>>]_vars

\* process(In) is in that case, with handlers pending and a signal installed
C7_Witness ==
    /\ pc = "recv"
    /\ what = {"In"}
    /\ open
    /\ inbox = <<>>
    /\ replies # {}
    /\ m_disconnectSignal

\* neither async nor ft was called on a builder of call c
NeverExplicit(c) ==
    /\ \A b \in LiveOf(c) : ~b.commited
    /\ \A i \in DOMAIN finalized : finalized[i][1] = c => finalized[i][2] = "noop"

\* C8: a call built by call()/callGeneric() and never given to async or ft has
\* its buffer in exactly one place, one live builder or one queued send with the
\* no-op handler, however often the builder was moved; once its builders are
\* all destroyed it was queued exactly once, and process(Out) sends one frame.
C8_AbandonedCallSentOnce ==
    \A c \in 1..nCalls :
        NeverExplicit(c) =>
            /\ Holders(c) + FinCount(c) = 1
            /\ LiveOf(c) = {} =>
                   /\ FinCount(c) = 1
                   /\ InQueue(m_outWork, c) + InQueue(m_tmpOutWork, c)
                        + Cardinality(FramesOf(c)) = 1
                   /\ (pc = "idle" /\ InQueue(m_outWork, c) = 0)
                          => Cardinality(FramesOf(c)) = 1

\* a builder moved once and then dropped: its one frame has been sent
C8_Witness ==
    /\ nCalls = 1
    /\ nMoves = 1
    /\ builders = EmptyBag
    /\ finalized = << <<1, "noop">> >>
    /\ Cardinality(FramesOf(1)) = 1
    /\ pc = "idle"

\* C9 as claimed: a second async or ft on a committed builder queues nothing,
\* so no builder ever queues more than one send action.
C9_NoSecondEntry == \A b \in Live : b.queued <= 1

\* the step in which builder b is destroyed
Destroyed(b) == builders' = builders (-) One(b)

\* C10 as claimed: a builder destroyed without a prior async/ft queues a send
\* if and only if body bytes follow the reserved header.
C10_CommitIffBody ==
    [][\A b \in Live :
           (Destroyed(b) /\ ~b.commited) =>
               IF b.size > HeaderSize
                  THEN m_outWork' = Append(m_outWork, Work(b, "noop"))
                  ELSE m_outWork' = m_outWork]_vars

\* C10, amended: a builder destroyed without a prior async/ft queues exactly
\* one send, with the no-op handler, if and only if it still owns its buffer
\* (the reserved header, with or without body bytes behind it); a moved-from
\* builder, whose buffer is empty, queues none.
C10_CommitIffBuffer ==
    /\ [][\A b \in Live :
              (Destroyed(b) /\ ~b.commited) =>
                  IF b.size >= HeaderSize
                     THEN m_outWork' = Append(m_outWork, Work(b, "noop"))
                     ELSE m_outWork' = m_outWork]_vars
    /\ [](\A b \in Live : b.size = 0 \/ b.size >= HeaderSize)

\* a builder holding only the header was destroyed and its send is queued,
\* while a moved-from builder is gone without a trace
C10_Witness ==
    /\ \E i \in DOMAIN m_outWork :
           m_outWork[i].size = HeaderSize /\ m_outWork[i].handler = "noop"
    /\ nMoves = 1
    /\ builders = EmptyBag
    /\ Len(finalized) = nCalls

\* the place of call c in the order commit() queued the calls (0: not queued)
FinPos(c) ==
    IF FinCount(c) = 0 THEN 0 ELSE CHOOSE i \in DOMAIN finalized : finalized[i][1] = c

\* C11: whichever calls T were finalized by one thread (a thread's commits
\* enter the queue in its program order, between those of the other threads),
\* the transport is handed their frames in the order they were finalized: a
\* frame is never handed over while a call the thread finalized earlier is
\* still waiting, over any number of process(Out) calls.
C11_PerThreadFifo ==
    \A T \in SUBSET CallIds :
        \A c \in T : \A d \in T :
            (FinPos(c) # 0 /\ FinPos(c) < FinPos(d) /\ FramesOf(d) # {}) =>
                /\ FramesOf(c) # {}
                /\ \A k \in FramesOf(c) : \A l \in FramesOf(d) : k < l

\* two calls, finalized one before and one after the first process(Out) began,
\* have been sent by two process(Out) calls
C11_Witness ==
    /\ preOut = 1
    /\ pc = "idle"
    /\ Len(sent) = 2
    /\ m_outWork = <<>>

\* the key of the frame sent for call c
KeyOf(c) == key(sent[CHOOSE k \in FramesOf(c) : TRUE])

\* call c was sent, and neither a reply for it nor an abort was processed since
Pending(c) == FramesOf(c) # {} /\ nOk[c] = 0 /\ nFail[c] = 0

\* C12: the correlator holds an entry under a key exactly when a call was sent
\* with that key and neither its reply nor an abort has been processed since;
\* the entry is that call's.
C12_EntryIffPending ==
    /\ \A c \in CallIds : Pending(c) => \E e \in replies : e.key = KeyOf(c) /\ e.call = c
    /\ \A e \in replies : \E c \in CallIds : Pending(c) /\ e.key = KeyOf(c) /\ e.call = c

\* one call is answered and has no entry, another is sent and has its entry;
\* no operation is running
C12_Witness ==
    /\ pc = "idle"
    /\ \E c \in CallIds : FramesOf(c) # {} /\ nOk[c] = 1 /\ KeyOf(c) \notin Keys
    /\ \E c \in CallIds : Pending(c) /\ KeyOf(c) \in Keys

\* the step in which send() hands a call frame to the transport
SendsCall == Len(sent') = Len(sent) + 1 /\ ~sent'[Len(sent')].isReply

\* C13 as claimed: when send registers a handler, no entry is in the correlator
\* under the frame's key, also after the counter field has wrapped.
C13_KeyNeverReused ==
    [][SendsCall => key(sent'[Len(sent')]) \notin Keys]_vars

\* the step in which a frame leaves the transport's inbound queue
TakesFrame == Len(inbox') < Len(inbox)

\* C14: processIn takes the frames from the head of what the transport has to
\* deliver, one at a time; a reply frame goes to the correlator and not to the
\* local dispatch, any other frame to the local dispatch and not to the
\* correlator; and process(In) does not return while the transport is open
\* and has a frame to deliver.
C14_InboundLoop ==
    /\ [][TakesFrame =>
            /\ pc = "recv"
            /\ pc' = "recv"
            /\ inbox' = Tail(inbox)
            /\ IF Head(inbox).isReply
                  THEN /\ sent' = sent
                       /\ replies' = {e \in replies : e.key # key(Head(inbox))}
                       /\ \A c \in CallIds :
                              nOk'[c] = nOk[c] + (IF \E e \in replies :
                                                        e.call = c /\ e.key = key(Head(inbox))
                                                     THEN 1 ELSE 0)
                  ELSE /\ sent' = Append(sent, [Head(inbox) EXCEPT !.isReply = TRUE])
                       /\ UNCHANGED <<replies, nOk>>
            /\ UNCHANGED nFail]_vars
    /\ [][(pc = "recv" /\ pc' # "recv") => (~open \/ inbox = <<>>)]_vars

\* a call of the peer was dispatched and a reply was given to its handler; the
\* loop has come to the end of what the transport had
C14_Witness ==
    /\ pc = "recv"
    /\ open
    /\ inbox = <<>>
    /\ peerFrames = 2
    /\ \E k \in DOMAIN sent : sent[k].isReply
    /\ \E c \in CallIds : nOk[c] = 1

\* the handler of the call of frame f is in the correlator under f's key
HasEntry(f) == \E e \in replies : e.key = key(f) /\ e.call = f.call

\* C15: when send() hands a call frame to the transport, the call's handler is
\* in the correlator already, under the key the frame carries; so every call
\* frame the transport was given has its entry, until its reply or an abort
\* has been processed.
C15_RegisterBeforeSend ==
    /\ [][SendsCall =>
            /\ HasEntry(sent'[Len(sent')])
            /\ replies' = replies]_vars
    /\ [](\A k \in DOMAIN sent :
             sent[k].isReply \/ HasEntry(sent[k])
                \/ nOk[sent[k].call] + nFail[sent[k].call] >= 1)

\* send() has registered the handler and is about to hand the frame over,
\* after an earlier call was answered and its entry removed
C15_Witness ==
    /\ pc = "xmit"
    /\ HasEntry(Patched(NextWork, replyIdCounter))
    /\ \E c \in CallIds : FramesOf(c) # {} /\ nOk[c] = 1 /\ KeyOf(c) \notin Keys

\* C16: from the moment processIn has seen the closed transport until that
\* process call returns, the correlator is empty and no frame is taken from
\* the transport; when the disconnect signal is invoked, every call that was
\* sent has had its reply or its failure.
C16_AbortBeforeSignal ==
    /\ [](pc = "disc" => replies = {})
    /\ [][(SeesClosed \/ pc = "disc") =>
            /\ inbox' = inbox
            /\ pc' \in {"disc", "idle"}]_vars
    /\ [][fired' = fired + 1 =>
            /\ pc = "disc"
            /\ \A c \in CallIds : FramesOf(c) # {} => nOk[c] + nFail[c] = 1]_vars

\* the closed transport was seen with a handler pending and frames unread; the
\* disconnect signal is about to be invoked
C16_Witness ==
    /\ pc = "disc"
    /\ m_disconnectSignal
    /\ inbox # <<>>
    /\ \E c \in CallIds : nFail[c] = 1

\* the step in which a call is finalized: commit() runs for it
Finalizes == finalized' # finalized

\* C17: a step that finalizes a call (async, ft, or the implicit commit of
\* ~Call) appends exactly one send action, that call's, to the outbound queue
\* and leaves the transport, the counter, the correlator and the driving
\* thread alone; frames are sent, the counter advanced and handlers registered
\* only in a step of process(Out).
C17_FinalizeOnlyQueues ==
    /\ [][Finalizes =>
            /\ Len(finalized') = Len(finalized) + 1
            /\ Len(m_outWork') = Len(m_outWork) + 1
            /\ SubSeq(m_outWork', 1, Len(m_outWork)) = m_outWork
            /\ m_outWork'[Len(m_outWork')].call = finalized'[Len(finalized')][1]
            /\ m_outWork'[Len(m_outWork')].handler = finalized'[Len(finalized')][2]
            /\ UNCHANGED <<m_tmpOutWork, replyIdCounter, replies, sent, inbox, open,
                           pc, what, callstack, nOk, nFail>>]_vars
    /\ [][(sent' # sent \/ replyIdCounter' # replyIdCounter \/ replies' # replies)
             => (pc = "drain" /\ ~Finalizes)]_vars

\* one call finalized with async or ft and one by its destructor: both wait in
\* the queue, nothing has been sent or registered and the counter has not moved
C17_Witness ==
    /\ Len(m_outWork) = 2
    /\ m_outWork[1].handler # m_outWork[2].handler
    /\ sent = <<>>
    /\ replies = {}
    /\ replyIdCounter = 0

\* the step in which a finalize's out-signal starts process(Out)
SignalStartsOut == Finalizes /\ pc = "idle" /\ pc' # "idle"

\* C18: every commit invokes the out-signal once if one is installed, and
\* nothing else invokes it; the signal comes when the call's send action is in
\* the queue, so a process(Out) that the signal's callback starts takes that
\* call with the rest of the queue, and has sent all it took when it returns.
C18_SignalAfterQueued ==
    /\ [][outSignals' = outSignals
             + (IF Finalizes /\ m_outSignal
                   THEN Len(finalized') - Len(finalized) ELSE 0)]_vars
    /\ [][SignalStartsOut =>
            /\ pc' = "drain"
            /\ m_outWork' = <<>>
            /\ m_tmpOutWork' # <<>>
            /\ m_tmpOutWork'[Len(m_tmpOutWork')].call = finalized'[Len(finalized')][1]]_vars
    /\ [](pc = "idle" => m_tmpOutWork = <<>>)

\* the second call's out-signal has started a process(Out), which has taken
\* both calls from the queue
C18_Witness ==
    /\ m_outSignal
    /\ outSignals = 2
    /\ pc = "drain"
    /\ preOut = 2
    /\ Len(m_tmpOutWork) = 2
    /\ sent = <<>>

\* C19: while a process() invocation runs, getCurrent() is this connection;
\* the stack changes only by one marker of this connection being put on top
\* when process() begins and by the top marker being taken off when it
\* returns, so each return leaves the stack as it was before that call, for
\* nested calls too; with no process() running the stack is empty.
C19_MarkerBalanced ==
    /\ [](pc \in {"drain", "recv", "disc"} => getCurrent = "this")
    /\ [](pc = "idle" => callstack = <<>> /\ getCurrent = "nullptr")
    /\ [][callstack' # callstack =>
            \/ /\ Len(callstack') = Len(callstack) + 1
               /\ SubSeq(callstack', 1, Len(callstack)) = callstack
               /\ callstack'[Len(callstack')].key = "this"
            \/ /\ callstack # <<>>
               /\ callstack' = SubSeq(callstack, 1, Len(callstack) - 1)]_vars

\* a process() called by a reply handler has seen the closed transport and is
\* about to return into the process() that ran the handler
C19_Witness ==
    /\ Len(callstack) = 2
    /\ pc = "disc"
    /\ \E c \in CallIds : nOk[c] = 1

\* the inbound phase of a process(Both)
InPhaseOfBoth == pc \in {"recv", "disc"} /\ what = {"In", "Out"}

\* C20: process(Both) reads no frame while it drains, and has sent all it took
\* from the queue when it begins to read; from then until it returns it sends
\* no call frame and takes nothing from the outbound queue, which only grows
\* by the calls finalized meanwhile (those of handlers and local methods too);
\* call frames are sent only in the outbound phase of a process call.
C20_OutBeforeIn ==
    /\ [][pc = "drain" => ~TakesFrame]_vars
    /\ [](pc \in {"recv", "disc"} => m_tmpOutWork = <<>>)
    /\ [][InPhaseOfBoth =>
            /\ ~SendsCall
            /\ replyIdCounter' = replyIdCounter
            /\ m_tmpOutWork' = <<>>
            /\ Len(m_outWork') >= Len(m_outWork)
            /\ SubSeq(m_outWork', 1, Len(m_outWork)) = m_outWork]_vars
    /\ [][SendsCall => pc = "drain"]_vars

\* process(Both) has drained, has given a reply to a handler that made a call
\* of its own, and is about to return with that call in the outbound queue
C20_Witness ==
    /\ InPhaseOfBoth
    /\ open
    /\ inbox = <<>>
    /\ \E c \in CallIds : nOk[c] = 1
    /\ \E i \in DOMAIN m_outWork : m_outWork[i].rpcid = GenericRpcId

====
